---------------------------- MODULE Spec2Model ----------------------------
(***************************************************************************)
(* MediCart (src/app.js): a product catalog, a decorator chain for prices, *)
(* a cart (subject) with observers, a prescription gate, and the four UI   *)
(* event handlers wired in the DOMContentLoaded callback.                  *)
(*                                                                         *)
(* Money is counted in cents.  JavaScript array positions are 0-based;     *)
(* the sequences here are 1-based, so JS position i is element i + 1.      *)
(*                                                                         *)
(* Specifications:                                                         *)
(*   Spec       the page: the click handlers acting on the closure's cart  *)
(*   SpecApi    the CartSubject class driven directly, with any index,     *)
(*              any quantity and observers that may raise                  *)
(*   SpecTotal  a cart without observers holding products of given prices  *)
(*   SpecPrice  the factory and the decorators called directly             *)
(*   SpecObs    the CartSubject class driven directly with observers whose *)
(*              update hooks call addObserver or removeObserver            *)
(***************************************************************************)
EXTENDS Integers, Sequences, FiniteSets, TLC

VARIABLES
    items,            \* CartSubject.items: sequence of lines
    observers,        \* CartSubject.observers: sequence of observer ids
    verified,         \* the Prescription closure's flag
    totalText,        \* #cart-total textContent, in cents; Unset before any update
    rxStatus,         \* #rx-status textContent
    cartRows,         \* #cart-items: the rendered rows, each with its captured idx
    checkoutDisabled, \* #checkout disabled attribute
    calls,            \* history: update hooks invoked by the last operation
    last,             \* history: the last operation, its inputs and its outcome
    probe             \* history: the last direct call of the factory or a decorator

vars == <<items, observers, verified, totalText, rxStatus, cartRows,
          checkoutDisabled, calls, last, probe>>

---------------------------------------------------------------------------
(* Bounds of the model *)

MaxLines == 2

MaxQty == 2

MaxObservers == 2

---------------------------------------------------------------------------
(* Small helpers *)

Max(a, b) == IF a >= b THEN a ELSE b

Min(a, b) == IF a <= b THEN a ELSE b

Unset == -1

---------------------------------------------------------------------------
(* Catalog, Product, ProductFactory *)

CATALOG ==
    << [id |-> "amox500", basePrice |-> 2499, prescriptionRequired |-> TRUE],
       [id |-> "ator20",  basePrice |-> 3450, prescriptionRequired |-> TRUE],
       [id |-> "met500",  basePrice |-> 1825, prescriptionRequired |-> TRUE],
       [id |-> "omep20",  basePrice |-> 995,  prescriptionRequired |-> FALSE] >>

CatalogIds == { CATALOG[i].id : i \in 1..Len(CATALOG) }

\* mutant: any known id finds the first entry
Mut_Find(productId) == IF productId \in CatalogIds THEN 1 ELSE 0

\* CATALOG.find(p => p.id === productId): position of the first match, 0 if none
Find(productId) ==
    IF productId \in CatalogIds
    THEN CHOOSE i \in 1..Len(CATALOG) :
            /\ CATALOG[i].id = productId
            /\ \A j \in 1..(i - 1) : CATALOG[j].id # productId
    ELSE 0

\* new Product(found): the fields copied, with an empty decorator chain
Product(entry) ==
    [id |-> entry.id, basePrice |-> entry.basePrice,
     prescriptionRequired |-> entry.prescriptionRequired, mods |-> <<>>]

\* createProduct throws on an unknown id
CreateProductThrows(productId) == Find(productId) = 0

createProduct(productId) == Product(CATALOG[Find(productId)])

---------------------------------------------------------------------------
(* Decorators.  A decorated product keeps the root's fields (super(wrappee) *)
(* copies them) and records the chain of modifiers, innermost first.        *)

\* mutant: the percent used as given
Mut_Clamp(percent) == percent

Clamp(percent) == Max(0, Min(100, percent))

DiscountDecorator(wrappee, percent) ==
    [wrappee EXCEPT !.mods = Append(@, [kind |-> "discount", percent |-> Clamp(percent)])]

InsuranceDecorator(wrappee, coveragePercent) ==
    [wrappee EXCEPT !.mods = Append(@, [kind |-> "insurance", percent |-> Clamp(coveragePercent)])]

\* p * (1 - percent / 100) is computed in IEEE-754 doubles and toFixed(2)
\* rounds the double's exact value.  The result differs from exact
\* round-half-up only when the exact product ends in half a cent; for the
\* prices and percents the page offers, these are the cases where the double
\* lies below the half and toFixed rounds down.
TiesRoundedDown ==
    { <<945, 30>>, <<945, 50>>, <<995, 30>>, <<995, 50>>, <<1551, 50>>,
      <<1643, 50>>, <<1825, 30>>, <<1999, 50>>, <<2249, 50>>, <<2499, 50>>,
      <<3105, 30>>, <<3450, 5>>, <<3450, 15>> }

\* +(p * (1 - percent / 100)).toFixed(2), p in cents
ScaledPrice(p, percent) ==
    LET scaled == p * (100 - percent)
    IN  IF scaled % 100 = 50 /\ <<p, percent>> \in TiesRoundedDown
        THEN scaled \div 100
        ELSE (scaled + 50) \div 100

RECURSIVE ChainPrice(_, _, _)
\* the price after the first n modifiers of the chain
ChainPrice(base, mods, n) ==
    IF n = 0 THEN base
    ELSE ScaledPrice(ChainPrice(base, mods, n - 1), mods[n].percent)

getPrice(product) == ChainPrice(product.basePrice, product.mods, Len(product.mods))

---------------------------------------------------------------------------
(* CartSubject *)

RECURSIVE SumLines(_, _)
SumLines(its, n) ==
    IF n = 0 THEN 0
    ELSE SumLines(its, n - 1) + getPrice(its[n].product) * its[n].qty

RECURSIVE PriceSum(_, _)
PriceSum(its, n) ==
    IF n = 0 THEN 0 ELSE PriceSum(its, n - 1) + getPrice(its[n].product)

\* mutant: the quantity left out of the sum
Mut_getTotal(its) == PriceSum(its, Len(its))

getTotal(its) == SumLines(its, Len(its))

\* mutant: the quantity stored as given
Mut_Quantity(qty) == qty

\* Math.max(1, Number(qty))
Quantity(qty) == Max(1, qty)

\* this.items.push({ product, qty: quantity }); atAdd is history: the gate
\* at the moment of adding
PushLine(its, product, qty, gate) ==
    Append(its, [product |-> product, qty |-> Quantity(qty), atAdd |-> gate])

\* Array.prototype.splice(index, 1): a negative index counts from the end
\* and is clamped at 0, an index beyond the end is clamped at the length
\* mutant: the position taken as 1-based
Mut_SpliceStart(len, index) ==
    IF index < 0 THEN Max(len + index, 0) ELSE Min(index + 1, len)

SpliceStart(len, index) ==
    IF index < 0 THEN Max(len + index, 0) ELSE Min(index, len)

Splice(its, index) ==
    LET len   == Len(its)
        start == SpliceStart(len, index)
        count == Min(1, len - start)
    IN  SubSeq(its, 1, start) \o SubSeq(its, start + count + 1, len)

\* mutant: clear drops the first line only
Mut_Cleared(its) == IF Len(its) = 0 THEN its ELSE Tail(its)

\* this.items = []
Cleared(its) == <<>>

\* the observers handed to addObserver when the class is driven directly: one
\* with a plain update hook, one whose hook raises, one without a hook.  The
\* page registers "totalDisplay", the TotalDisplayObserver.
ObserverPool == {"logger", "thrower", "noHook"}

\* o.update is truthy
HasUpdate(o) == o # "noHook"

\* the hook raises
UpdateThrows(o) == o = "thrower"

\* mutant: the hook leaves the text as it is
Mut_UpdateText(o, its, text) == text

\* TotalDisplayObserver.update: textContent = `$${cart.getTotal().toFixed(2)}`
UpdateText(o, its, text) == IF o = "totalDisplay" THEN getTotal(its) ELSE text

\* this.observers.push(observer)
PushObserver(obs, o) == Append(obs, o)

RECURSIVE DropFirst(_, _)
DropFirst(obs, o) ==
    IF obs = <<>> THEN <<>>
    ELSE IF Head(obs) = o THEN Tail(obs)
    ELSE <<Head(obs)>> \o DropFirst(Tail(obs), o)

\* mutant: only the first registration of the observer is dropped
Mut_FilterObservers(obs, o) == DropFirst(obs, o)

\* this.observers.filter(o => o !== observer)
FilterObservers(obs, o) ==
    LET Keep(x) == x # o IN SelectSeq(obs, Keep)

\* observers whose update hook changes the registry of the cart it is handed:
\* cart.removeObserver(this), cart.removeObserver(logger),
\* cart.addObserver(logger)
ReentrantPool == {"unsubSelf", "unsubLogger", "subLogger"}

\* this.observers after the hook of o has run
HookRegistry(o, obs) ==
    CASE o = "unsubSelf"   -> FilterObservers(obs, o)
      [] o = "unsubLogger" -> FilterObservers(obs, "logger")
      [] o = "subLogger"   -> PushObserver(obs, "logger")
      [] OTHER             -> obs

\* the hook of o assigns a new array to this.observers (removeObserver's
\* filter); push changes the array in place
HookReplaces(o) == o \in {"unsubSelf", "unsubLogger"}

\* mutant: the round reads this.observers afresh at every step
Mut_IteratedArray(arr0, live, same) == live

\* the array forEach walks is the one this.observers named when the round
\* started: it holds what this.observers holds as long as that is the same
\* array (pushes included), and its old contents once filter has replaced it
IteratedArray(arr0, live, same) == IF same THEN live ELSE arr0

\* forEach reads the length once, before the first call
LoopBound(arr0) == Len(arr0)

RECURSIVE NotifyFrom(_, _, _, _)
\* this.observers.forEach(o => o.update && o.update(this)) from position i
\* on, arr0 being this.observers when the round started; acc is [calls, text,
\* threw, obs, same], obs the current this.observers and same whether it is
\* still the array of the round.  An exception leaves forEach at once; a
\* position the array does not have is skipped.
NotifyFrom(i, arr0, its, acc) ==
    LET arr == IteratedArray(arr0, acc.obs, acc.same)
    IN  IF i > LoopBound(arr0) THEN acc
        ELSE IF i > Len(arr) THEN NotifyFrom(i + 1, arr0, its, acc)
        ELSE LET o == arr[i]
             IN  IF ~HasUpdate(o) THEN NotifyFrom(i + 1, arr0, its, acc)
                 ELSE LET called == Append(acc.calls, [observer |-> o, seen |-> its])
                      IN  IF UpdateThrows(o)
                          THEN [acc EXCEPT !.calls = called, !.threw = TRUE]
                          ELSE NotifyFrom(i + 1, arr0, its,
                                  [calls |-> called,
                                   text  |-> UpdateText(o, its, acc.text),
                                   threw |-> FALSE,
                                   obs   |-> HookRegistry(o, acc.obs),
                                   same  |-> acc.same /\ ~HookReplaces(o)])

notify(obs, its, text) ==
    NotifyFrom(1, obs, its, [calls |-> <<>>, text |-> text, threw |-> FALSE,
                             obs |-> obs, same |-> TRUE])

---------------------------------------------------------------------------
(* Prescription *)

\* mutant: the confirmation is not checked
Mut_VerifyReturns(hasFile, confirmed) == hasFile

\* verify's return value
VerifyReturns(hasFile, confirmed) ==
    IF ~hasFile THEN FALSE
    ELSE IF ~confirmed THEN FALSE
    ELSE TRUE

\* mutant: the flag assigned the outcome of the call
Mut_VerifiedAfter(was, hasFile, confirmed) == VerifyReturns(hasFile, confirmed)

\* the flag after verify: set on the success path only
VerifiedAfter(was, hasFile, confirmed) ==
    IF VerifyReturns(hasFile, confirmed) THEN TRUE ELSE was

---------------------------------------------------------------------------
(* Rendering *)

\* mutant: the rows numbered from 1
Mut_renderCartItems(its) ==
    [k \in 1..Len(its) |-> [idx |-> k, line |-> its[k]]]

\* renderCartItems: one row per line, its click handler closing over idx
renderCartItems(its) ==
    [k \in 1..Len(its) |-> [idx |-> k - 1, line |-> its[k]]]

---------------------------------------------------------------------------
(* Inputs *)

\* The add-to-cart requests the model draws: data-id of the clicked button,
\* the values of the card's .discount and .insurance selects and the numeric
\* value of its .qty input.  "zzz" is an id the catalog does not hold.
AddRequests ==
    { [productId |-> "amox500", discount |-> 0,  insuranceSel |-> "none", value |-> 1],
      [productId |-> "amox500", discount |-> 10, insuranceSel |-> "30",   value |-> 2],
      [productId |-> "omep20",  discount |-> 0,  insuranceSel |-> "30",   value |-> 0],
      [productId |-> "omep20",  discount |-> 10, insuranceSel |-> "none", value |-> -5],
      [productId |-> "zzz",     discount |-> 0,  insuranceSel |-> "none", value |-> 1] }

\* Number(insuranceSel) for the numeric options
NumberOf(insuranceSel) == IF insuranceSel = "30" THEN 30 ELSE 50

\* the qty argument of addItem when the class is driven directly
QtyInputs == {-5} \cup (0..MaxQty)

\* the index argument of removeItem when the class is driven directly
IndexInputs == (0 - (MaxLines + 1))..(MaxLines + 1)

\* the products handed to addItem when the class is driven directly
ApiProducts ==
    { createProduct("omep20"),
      DiscountDecorator(createProduct("amox500"), 10) }

---------------------------------------------------------------------------
(* The record of the last operation *)

Op(op, outcome) ==
    [op |-> op, outcome |-> outcome, pid |-> "", index |-> 0, qty |-> 0,
     observer |-> "", hasFile |-> FALSE, confirmed |-> FALSE, ret |-> FALSE,
     before |-> items, obsBefore |-> observers, gate |-> verified,
     textBefore |-> totalText, rowsBefore |-> cartRows, row |-> 0,
     disabledBefore |-> checkoutDisabled]

NoOp == [op |-> "init", outcome |-> "", pid |-> "", index |-> 0, qty |-> 0,
         observer |-> "", hasFile |-> FALSE, confirmed |-> FALSE, ret |-> FALSE,
         before |-> <<>>, obsBefore |-> <<>>, gate |-> FALSE,
         textBefore |-> Unset, rowsBefore |-> <<>>, row |-> 0,
         disabledBefore |-> FALSE]

Outcome(n) == IF n.threw THEN "threw" ELSE "done"

\* the value standing for "no product was returned"
NoProduct == [id |-> "", basePrice |-> 0, prescriptionRequired |-> FALSE, mods |-> <<>>]

NoProbe ==
    [fn |-> "none", id |-> "", kind |-> "", base |-> 0, discount |-> 0,
     sel |-> "none", percent |-> 0, threw |-> FALSE, product |-> NoProduct,
     wrapped |-> 0, price |-> 0]

---------------------------------------------------------------------------
(* The page: state after the DOMContentLoaded callback has run *)

Init ==
    /\ items = <<>>
    /\ observers = <<"totalDisplay">>
    /\ verified = FALSE
    /\ totalText = notify(<<"totalDisplay">>, <<>>, Unset).text
    /\ rxStatus = "unset"
    /\ cartRows = <<>>
    /\ checkoutDisabled \in BOOLEAN
    /\ calls = notify(<<"totalDisplay">>, <<>>, Unset).calls
    /\ last = NoOp
    /\ probe = NoProbe

\* what the add-to-cart handler builds from the factory product
Decorated(product, discount, insuranceSel) ==
    LET d == IF discount > 0 THEN DiscountDecorator(product, discount) ELSE product
    IN  IF insuranceSel # "none" THEN InsuranceDecorator(d, NumberOf(insuranceSel)) ELSE d

\* Number(value) || 1
QtyOrOne(value) == IF value = 0 THEN 1 ELSE value

\* mutant: the gate test inverted
Mut_RefusedInverted(product, gate) == product.prescriptionRequired = TRUE /\ gate

\* mutant: the guard left out
Mut_RefusedNever(product, gate) == FALSE

\* the guard of the add-to-cart handler
Refused(product, gate) == product.prescriptionRequired = TRUE /\ ~gate

\* click on an .add button
AddToCartClick(productId, discount, insuranceSel, value) ==
    /\ UNCHANGED probe
    /\ Len(items) < MaxLines
    /\ IF CreateProductThrows(productId)
       THEN /\ last' = [Op("addToCart", "NotFound") EXCEPT !.pid = productId]
            /\ calls' = <<>>
            /\ UNCHANGED <<items, observers, verified, totalText, rxStatus,
                           cartRows, checkoutDisabled>>
       ELSE IF Refused(createProduct(productId), verified)
       THEN /\ last' = [Op("addToCart", "PermissionDenied") EXCEPT !.pid = productId]
            /\ calls' = <<>>
            /\ UNCHANGED <<items, observers, verified, totalText, rxStatus,
                           cartRows, checkoutDisabled>>
       ELSE LET product == Decorated(createProduct(productId), discount, insuranceSel)
                qty     == QtyOrOne(value)
                its     == PushLine(items, product, qty, verified)
                n       == notify(observers, its, totalText)
            IN  /\ items' = its
                /\ totalText' = n.text
                /\ calls' = n.calls
                /\ last' = [Op("addToCart", Outcome(n)) EXCEPT !.pid = productId, !.qty = qty]
                /\ IF n.threw
                   THEN UNCHANGED <<cartRows, checkoutDisabled>>
                   ELSE /\ cartRows' = renderCartItems(its)
                        /\ checkoutDisabled' = (Len(its) = 0)
                /\ observers' = n.obs
                /\ UNCHANGED <<verified, rxStatus>>

\* click on the remove button of the k-th displayed row
RemoveClick(k) ==
    /\ UNCHANGED probe
    /\ k \in 1..Len(cartRows)
    /\ LET idx == cartRows[k].idx
           its == Splice(items, idx)
           n   == notify(observers, its, totalText)
       IN  /\ items' = its
           /\ totalText' = n.text
           /\ calls' = n.calls
           /\ last' = [Op("remove", Outcome(n)) EXCEPT !.index = idx, !.row = k]
           /\ IF n.threw
              THEN UNCHANGED <<cartRows, checkoutDisabled>>
              ELSE /\ cartRows' = renderCartItems(its)
                   /\ checkoutDisabled' = (Len(its) = 0)
           /\ observers' = n.obs
           /\ UNCHANGED <<verified, rxStatus>>

\* click on #rx-verify
RxVerifyClick(hasFile, confirmed) ==
    LET ok == VerifyReturns(hasFile, confirmed)
    IN  /\ UNCHANGED probe
        /\ verified' = VerifiedAfter(verified, hasFile, confirmed)
        /\ rxStatus' = IF ok THEN "Verified" ELSE "Not verified"
        /\ calls' = <<>>
        /\ last' = [Op("verify", "done") EXCEPT
                        !.hasFile = hasFile, !.confirmed = confirmed, !.ret = ok]
        /\ UNCHANGED <<items, observers, totalText, cartRows, checkoutDisabled>>

\* click on #checkout; a disabled button dispatches no click
CheckoutClick ==
    /\ UNCHANGED probe
    /\ ~checkoutDisabled
    /\ IF Len(items) = 0
       THEN /\ last' = Op("checkout", "empty")
            /\ calls' = <<>>
            /\ UNCHANGED <<items, observers, verified, totalText, rxStatus,
                           cartRows, checkoutDisabled>>
       ELSE LET its == Cleared(items)
                n   == notify(observers, its, totalText)
            IN  /\ items' = its
                /\ totalText' = n.text
                /\ calls' = n.calls
                /\ last' = Op("checkout", Outcome(n))
                /\ IF n.threw
                   THEN UNCHANGED <<cartRows, checkoutDisabled>>
                   ELSE /\ cartRows' = renderCartItems(its)
                        /\ checkoutDisabled' = TRUE
                /\ observers' = n.obs
                /\ UNCHANGED <<verified, rxStatus>>

Next ==
    \/ \E r \in AddRequests :
            AddToCartClick(r.productId, r.discount, r.insuranceSel, r.value)
    \/ \E k \in 1..MaxLines : RemoveClick(k)
    \/ \E hasFile \in BOOLEAN, confirmed \in BOOLEAN : RxVerifyClick(hasFile, confirmed)
    \/ CheckoutClick

Spec == Init /\ [][Next]_vars

---------------------------------------------------------------------------
(* The CartSubject class driven directly: state after new CartSubject() *)

InitApi ==
    /\ items = <<>>
    /\ observers = <<>>
    /\ verified = FALSE
    /\ totalText = Unset
    /\ rxStatus = "unset"
    /\ cartRows = <<>>
    /\ checkoutDisabled = FALSE
    /\ calls = <<>>
    /\ last = NoOp
    /\ probe = NoProbe

addObserver(o) ==
    /\ UNCHANGED probe
    /\ Len(observers) < MaxObservers
    /\ observers' = PushObserver(observers, o)
    /\ calls' = <<>>
    /\ last' = [Op("addObserver", "done") EXCEPT !.observer = o]
    /\ UNCHANGED <<items, verified, totalText, rxStatus, cartRows, checkoutDisabled>>

removeObserver(o) ==
    /\ UNCHANGED probe
    /\ observers' = FilterObservers(observers, o)
    /\ calls' = <<>>
    /\ last' = [Op("removeObserver", "done") EXCEPT !.observer = o]
    /\ UNCHANGED <<items, verified, totalText, rxStatus, cartRows, checkoutDisabled>>

addItem(product, qty) ==
    /\ UNCHANGED probe
    /\ Len(items) < MaxLines
    /\ LET its == PushLine(items, product, qty, verified)
           n   == notify(observers, its, totalText)
       IN  /\ Len(n.obs) <= MaxObservers + 1
           /\ items' = its
           /\ observers' = n.obs
           /\ totalText' = n.text
           /\ calls' = n.calls
           /\ last' = [Op("addItem", Outcome(n)) EXCEPT !.pid = product.id, !.qty = qty]
    /\ UNCHANGED <<verified, rxStatus, cartRows, checkoutDisabled>>

removeItem(index) ==
    /\ UNCHANGED probe
    /\ LET its == Splice(items, index)
           n   == notify(observers, its, totalText)
       IN  /\ Len(n.obs) <= MaxObservers + 1
           /\ items' = its
           /\ observers' = n.obs
           /\ totalText' = n.text
           /\ calls' = n.calls
           /\ last' = [Op("removeItem", Outcome(n)) EXCEPT !.index = index]
    /\ UNCHANGED <<verified, rxStatus, cartRows, checkoutDisabled>>

clear ==
    /\ UNCHANGED probe
    /\ LET its == Cleared(items)
           n   == notify(observers, its, totalText)
       IN  /\ Len(n.obs) <= MaxObservers + 1
           /\ items' = its
           /\ observers' = n.obs
           /\ totalText' = n.text
           /\ calls' = n.calls
           /\ last' = Op("clear", Outcome(n))
    /\ UNCHANGED <<verified, rxStatus, cartRows, checkoutDisabled>>

NextApi ==
    \/ \E o \in ObserverPool : addObserver(o)
    \/ \E o \in ObserverPool : removeObserver(o)
    \/ \E product \in ApiProducts, qty \in QtyInputs : addItem(product, qty)
    \/ \E index \in IndexInputs : removeItem(index)
    \/ clear

SpecApi == InitApi /\ [][NextApi]_vars

---------------------------------------------------------------------------
(* Properties *)

\* the line at JS position i of a sequence of lines
At(its, i) == its[i + 1]

\* the root product of a catalog id requires a prescription
IsRx(pid) == pid \in CatalogIds /\ createProduct(pid).prescriptionRequired

MutationOps == {"addItem", "removeItem", "clear"}

\* the calls a complete notification round makes: one per registered observer
\* that has an update hook, in registration order, each seeing the lines
RECURSIVE RoundOf(_, _, _)
RoundOf(obs, its, n) ==
    IF n = 0 THEN <<>>
    ELSE IF obs[n] = "noHook" THEN RoundOf(obs, its, n - 1)
    ELSE Append(RoundOf(obs, its, n - 1), [observer |-> obs[n], seen |-> its])

FullRound(obs, its) == RoundOf(obs, its, Len(obs))

\* C1: on the page, every line of a prescriptionRequired product was added
\* while the gate was Verified; an add request for such a product while the
\* gate is Unverified is refused and leaves the lines alone, and with the gate
\* Verified it appends a line of that product.
Thm_C1_GatedAdd ==
    /\ \A i \in 1..Len(items) :
          items[i].product.prescriptionRequired => items[i].atAdd
    /\ (last.op = "addToCart" /\ IsRx(last.pid) /\ ~last.gate) =>
          (last.outcome = "PermissionDenied" /\ items = last.before)
    /\ (last.op = "addToCart" /\ IsRx(last.pid) /\ last.gate) =>
          /\ last.outcome = "done"
          /\ Len(items) = Len(last.before) + 1
          /\ items[Len(items)].product.id = last.pid
          /\ items[Len(items)].atAdd

\* C1 witness: a prescription product was added after a successful verify and
\* its line is in the cart.
Wit_C1_RxLineAdded ==
    /\ last.op = "addToCart" /\ IsRx(last.pid) /\ last.outcome = "done"
    /\ Len(items) > 0
    /\ items[Len(items)].product.prescriptionRequired
    /\ rxStatus = "Verified"

\* C2: once the gate is Verified it is Verified in every later state.
Thm_C2_VerifiedIsTerminal == [][verified => verified']_vars

\* C2 witness: a failing verify call was made on a Verified gate, which is
\* still Verified.
Wit_C2_FailedVerifyAfterSuccess ==
    last.op = "verify" /\ last.gate /\ ~last.ret /\ verified

\* C3: verify returns true exactly when hasFile and confirmed are both true,
\* and then the gate is Verified; otherwise it returns false and the gate is
\* as it was.
Thm_C3_VerifyOutcome ==
    last.op = "verify" =>
        /\ last.ret <=> (last.hasFile /\ last.confirmed)
        /\ last.ret => verified
        /\ ~last.ret => (verified = last.gate)

\* C3 witness: verify(true, true) moved an Unverified gate to Verified.
Wit_C3_GateMoved ==
    last.op = "verify" /\ last.hasFile /\ last.confirmed /\ last.ret
        /\ ~last.gate /\ verified

\* C4, as claimed: removeItem(index) with index < 0 or index >= the number of
\* lines leaves the sequence of lines unchanged.
Claim_C4_OutOfRangeRemoveIsNoOp ==
    (last.op = "removeItem"
        /\ (last.index < 0 \/ last.index >= Len(last.before))) =>
        items = last.before

\* C5, as claimed: every mutating cart operation calls the update hook of each
\* registered observer exactly once, in registration order, with the cart in
\* its post-mutation state.
Claim_C5_EveryObserverNotified ==
    last.op \in MutationOps => calls = FullRound(observers, items)

\* C6, as claimed: when an observer's update hook raises during a
\* notification, the observers registered after it are still notified and
\* the lines are those of the completed mutation.
Claim_C6_FailingObserverIsolated ==
    (last.op \in MutationOps /\ last.outcome = "threw") =>
        /\ \A i \in 1..Len(observers) :
              observers[i] # "noHook" =>
                  \E j \in 1..Len(calls) : calls[j].observer = observers[i]
        /\ last.op = "clear" => items = <<>>
        /\ last.op = "removeItem" => items = Splice(last.before, last.index)
        /\ last.op = "addItem" => Len(items) = Len(last.before) + 1

\* C7: an add request refused because the product is gated and the gate is
\* Unverified, or because the id is not in the catalog, leaves the lines
\* unchanged and notifies no observer; these requests are the ones refused.
Thm_C7_RefusedAddChangesNothing ==
    last.op = "addToCart" =>
        /\ last.pid \notin CatalogIds <=> last.outcome = "NotFound"
        /\ (IsRx(last.pid) /\ ~last.gate) <=> last.outcome = "PermissionDenied"
        /\ last.outcome \in {"NotFound", "PermissionDenied"} =>
              /\ items = last.before
              /\ calls = <<>>
              /\ totalText = last.textBefore
              /\ cartRows = last.rowsBefore

\* C7 witness: a gated product was refused on a cart that holds a line.
Wit_C7_RefusedOnNonEmptyCart ==
    last.op = "addToCart" /\ last.outcome = "PermissionDenied" /\ Len(items) > 0

\* C7, the other refusal: an unknown id was refused on a cart that holds a line.
Wit_C7_UnknownIdOnNonEmptyCart ==
    last.op = "addToCart" /\ last.outcome = "NotFound" /\ Len(items) > 0

\* C8: every line's quantity is >= 1; addItem with a quantity below 1 stores
\* 1 and with a quantity >= 1 stores it unchanged.
Thm_C8_QuantityAtLeastOne ==
    /\ \A i \in 1..Len(items) : items[i].qty >= 1
    /\ last.op = "addItem" =>
          items[Len(items)].qty = (IF last.qty < 1 THEN 1 ELSE last.qty)

\* C8 witness: addItem was called with quantity -5 and the line holds 1.
Wit_C8_NegativeQuantityStoredAsOne ==
    last.op = "addItem" /\ last.qty = -5 /\ items[Len(items)].qty = 1

\* C9: checkout on an empty cart changes nothing and notifies no observer;
\* checkout on a non-empty cart ends with zero lines and a total of 0.
Thm_C9_Checkout ==
    last.op = "checkout" =>
        IF Len(last.before) = 0
        THEN /\ last.outcome = "empty"
             /\ items = last.before
             /\ calls = <<>>
             /\ totalText = last.textBefore
             /\ cartRows = last.rowsBefore
        ELSE /\ Len(items) = 0
             /\ getTotal(items) = 0

\* C9 witness: checkout ran on a cart of two lines.
Wit_C9_CheckoutOfTwoLines ==
    last.op = "checkout" /\ Len(last.before) = 2 /\ Len(items) = 0

\* C9, the other case: checkout ran on an empty cart.
Wit_C9_CheckoutOfEmptyCart ==
    last.op = "checkout" /\ Len(last.before) = 0

\* C10: addItem appends exactly one line at the end, merging nothing;
\* removeItem(i) with 0 <= i < number of lines removes the line at position i,
\* keeps the others in order and shifts each later line down by one.
Thm_C10_InsertionOrder ==
    /\ last.op = "addItem" =>
          /\ Len(items) = Len(last.before) + 1
          /\ SubSeq(items, 1, Len(last.before)) = last.before
          /\ items[Len(items)].product.id = last.pid
    /\ (last.op = "removeItem" /\ last.index >= 0 /\ last.index < Len(last.before)) =>
          /\ Len(items) = Len(last.before) - 1
          /\ \A j \in 0..(Len(items) - 1) :
                At(items, j) = (IF j < last.index THEN At(last.before, j)
                                ELSE At(last.before, j + 1))

\* C10 witness: the first of two different lines was removed and the second
\* moved to position 0.
Wit_C10_FirstOfTwoRemoved ==
    /\ last.op = "removeItem" /\ last.index = 0 /\ Len(last.before) = 2
    /\ last.before[1] # last.before[2]
    /\ items = <<last.before[2]>>

\* C10, no merging: the same product was added twice and the cart holds two
\* lines of it.
Wit_C10_SameProductTwice ==
    /\ last.op = "addItem" /\ Len(items) = 2
    /\ items[1].product = items[2].product

---------------------------------------------------------------------------
(* A cart without observers, filled with products of given prices *)

\* new Product({ id, name, basePrice, prescriptionRequired }) with a price
\* of 10.00 and of 20.00, and a catalog product with insurance
TotalProducts ==
    { Product([id |-> "ten", basePrice |-> 1000, prescriptionRequired |-> FALSE]),
      Product([id |-> "twenty", basePrice |-> 2000, prescriptionRequired |-> FALSE]),
      InsuranceDecorator(createProduct("omep20"), 30) }

NextTotal ==
    \/ \E product \in TotalProducts, qty \in 1..MaxQty : addItem(product, qty)
    \/ \E index \in 0..MaxLines : removeItem(index)
    \/ clear

SpecTotal == InitApi /\ [][NextTotal]_vars

\* price times quantity of one line
LineAmount(line) == getPrice(line.product) * line.qty

RECURSIVE AmountOf(_)
\* the sum of the lines' amounts, first line first
AmountOf(its) ==
    IF its = <<>> THEN 0 ELSE LineAmount(Head(its)) + AmountOf(Tail(its))

\* C11: getTotal() is the sum over the current lines of price times quantity:
\* 0 for an empty cart, 40.00 for lines of 10.00 x 2 and 20.00 x 1, and after
\* an in-range removeItem(i) the total of before less the removed line's amount.
Thm_C11_TotalIsSumOfLines ==
    /\ getTotal(items) = AmountOf(items)
    /\ Len(items) = 0 => getTotal(items) = 0
    /\ (/\ Len(items) = 2
        /\ items[1].product.id = "ten" /\ items[1].qty = 2
        /\ items[2].product.id = "twenty" /\ items[2].qty = 1) =>
          getTotal(items) = 4000
    /\ (last.op = "removeItem" /\ last.index >= 0 /\ last.index < Len(last.before)) =>
          getTotal(items) = getTotal(last.before) - LineAmount(At(last.before, last.index))
    /\ last.op = "addItem" =>
          getTotal(items) = getTotal(last.before) + LineAmount(items[Len(items)])

\* C11 witness: lines of 10.00 x 2 and 20.00 x 1 were added and the total is 40.00.
Wit_C11_TotalOfForty ==
    /\ last.op = "addItem" /\ Len(items) = 2
    /\ items[1].product.id = "ten" /\ items[1].qty = 2
    /\ items[2].product.id = "twenty" /\ items[2].qty = 1
    /\ getTotal(items) = 4000

\* C11, removal: a line was removed from a cart of two and the total is the
\* amount of the line that is left.
Wit_C11_TotalAfterRemoval ==
    /\ last.op = "removeItem" /\ Len(last.before) = 2 /\ Len(items) = 1
    /\ getTotal(items) = LineAmount(items[1])
    /\ getTotal(items) < getTotal(last.before)

---------------------------------------------------------------------------
(* The factory and the decorators called directly *)

\* base prices: the catalog's, 50.00 and 100.00
PriceBases == {2499, 3450, 1825, 995, 5000, 10000}

\* the options of the .discount select
DiscountOptions == {0, 5, 10, 15, 20}

\* the options of the .insurance select
InsuranceOptions == {"none", "30", "50"}

\* percent arguments handed to a decorator's constructor
PercentArgs == {-10, 0, 30, 100, 150}

\* ids handed to createProduct
IdArgs == CatalogIds \cup {"zzz", "nonexistent"}

PlainProduct(base) ==
    Product([id |-> "p", basePrice |-> base, prescriptionRequired |-> FALSE])

\* ProductFactory.createProduct(id)
CallCreateProduct(id) ==
    /\ probe' = [NoProbe EXCEPT
                    !.fn = "createProduct", !.id = id,
                    !.threw = CreateProductThrows(id),
                    !.product = IF CreateProductThrows(id) THEN NoProduct
                                ELSE createProduct(id),
                    !.price = IF CreateProductThrows(id) THEN 0
                              ELSE getPrice(createProduct(id))]
    /\ UNCHANGED <<items, observers, verified, totalText, rxStatus, cartRows,
                   checkoutDisabled, calls, last>>

\* the decorators of the add-to-cart handler over a product of price base,
\* then getPrice()
CallDecorated(base, discount, insuranceSel) ==
    LET product == Decorated(PlainProduct(base), discount, insuranceSel)
    IN  /\ probe' = [NoProbe EXCEPT
                        !.fn = "decorated", !.base = base, !.discount = discount,
                        !.sel = insuranceSel, !.product = product,
                        !.wrapped = base, !.price = getPrice(product)]
        /\ UNCHANGED <<items, observers, verified, totalText, rxStatus, cartRows,
                       checkoutDisabled, calls, last>>

\* new DiscountDecorator(wrappee, percent) or new InsuranceDecorator(wrappee,
\* percent), then getPrice()
CallModifier(kind, wrappee, percent) ==
    LET product == IF kind = "discount" THEN DiscountDecorator(wrappee, percent)
                   ELSE InsuranceDecorator(wrappee, percent)
    IN  /\ probe' = [NoProbe EXCEPT
                        !.fn = "modifier", !.kind = kind, !.base = wrappee.basePrice,
                        !.percent = percent, !.product = product,
                        !.wrapped = getPrice(wrappee), !.price = getPrice(product)]
        /\ UNCHANGED <<items, observers, verified, totalText, rxStatus, cartRows,
                       checkoutDisabled, calls, last>>

\* the items a modifier is put around: a plain product or a discounted one
Wrappees ==
    { PlainProduct(base) : base \in PriceBases } \cup
    { DiscountDecorator(PlainProduct(base), 10) : base \in PriceBases }

NextPrice ==
    \/ \E id \in IdArgs : CallCreateProduct(id)
    \/ \E base \in PriceBases, discount \in DiscountOptions,
          insuranceSel \in InsuranceOptions :
            CallDecorated(base, discount, insuranceSel)
    \/ \E kind \in {"discount", "insurance"}, wrappee \in Wrappees,
          percent \in PercentArgs :
            CallModifier(kind, wrappee, percent)

SpecPrice == InitApi /\ [][NextPrice]_vars

\* x hundredths of a cent, rounded half up to whole cents
RoundHalfUp(x) == (x + 50) \div 100

\* C12, as claimed: with discount d > 0 and insurance coverage c the price is
\* round2(round2(base * (1 - d/100)) * (1 - c/100)), discount inside and
\* insurance outside, each rounded to 2 decimals.
Claim_C12_RoundedAtEachLayer ==
    (probe.fn = "decorated" /\ probe.discount > 0 /\ probe.sel # "none") =>
        probe.price =
            RoundHalfUp(RoundHalfUp(probe.base * (100 - probe.discount))
                            * (100 - (IF probe.sel = "30" THEN 30 ELSE 50)))

\* C12, what holds: the chain is discount inside, insurance outside, each
\* layer the rounding of toFixed(2) on the double-precision product.
Aux_C12_LayeredAsComputed ==
    (probe.fn = "decorated" /\ probe.discount > 0 /\ probe.sel # "none") =>
        /\ Len(probe.product.mods) = 2
        /\ probe.product.mods[1] = [kind |-> "discount", percent |-> probe.discount]
        /\ probe.product.mods[2].kind = "insurance"
        /\ probe.price =
              ScaledPrice(ScaledPrice(probe.base, probe.discount),
                          IF probe.sel = "30" THEN 30 ELSE 50)

\* C12, the example: Discount(10) then Insurance(30) on 50.00 gives 31.50.
Aux_C12_FiftyExample ==
    (probe.fn = "decorated" /\ probe.base = 5000 /\ probe.discount = 10
        /\ probe.sel = "30") => probe.price = 3150

\* C13: the percent a modifier stores is its argument clamped to [0,100]; an
\* argument above 100 gives price 0, one below 0 the wrapped item's price, and
\* no modifier's price is below 0 or above the wrapped item's price.
Thm_C13_PercentClamped ==
    probe.fn = "modifier" =>
        LET stored == probe.product.mods[Len(probe.product.mods)].percent
        IN  /\ stored >= 0 /\ stored <= 100
            /\ stored = (IF probe.percent > 100 THEN 100
                         ELSE IF probe.percent < 0 THEN 0 ELSE probe.percent)
            /\ probe.percent > 100 => probe.price = 0
            /\ probe.percent < 0 => probe.price = probe.wrapped
            /\ probe.price >= 0
            /\ probe.price <= probe.wrapped

\* C13 witness: Discount(150) on a 100.00 base gave price 0.
Wit_C13_DiscountOf150 ==
    /\ probe.fn = "modifier" /\ probe.kind = "discount" /\ probe.percent = 150
    /\ probe.wrapped = 10000 /\ probe.price = 0

\* C13, the other end: Discount(-10) on a 100.00 base gave price 100.00.
Wit_C13_DiscountOfMinus10 ==
    /\ probe.fn = "modifier" /\ probe.kind = "discount" /\ probe.percent = -10
    /\ probe.wrapped = 10000 /\ probe.price = 10000

\* C15: for an id of the catalog createProduct returns a product with that
\* entry's basePrice as price and that entry's prescriptionRequired flag; for
\* any other id it raises and returns no product.
Thm_C15_CreateProduct ==
    probe.fn = "createProduct" =>
        IF \E i \in 1..Len(CATALOG) : CATALOG[i].id = probe.id
        THEN /\ ~probe.threw
             /\ \A i \in 1..Len(CATALOG) :
                   CATALOG[i].id = probe.id =>
                       /\ probe.price = CATALOG[i].basePrice
                       /\ probe.product.prescriptionRequired
                              = CATALOG[i].prescriptionRequired
                       /\ probe.product.id = probe.id
        ELSE probe.threw /\ probe.product = NoProduct

\* C15 witness: createProduct("omep20") returned the 9.95 product that needs
\* no prescription.
Wit_C15_Omeprazole ==
    /\ probe.fn = "createProduct" /\ probe.id = "omep20" /\ ~probe.threw
    /\ probe.price = 995 /\ ~probe.product.prescriptionRequired

\* C15, the failure: createProduct("nonexistent") raised.
Wit_C15_Nonexistent ==
    probe.fn = "createProduct" /\ probe.id = "nonexistent" /\ probe.threw

---------------------------------------------------------------------------
(* Observer registration *)

RECURSIVE Others(_, _)
\* the registrations other than o, in their order
Others(obs, o) ==
    IF obs = <<>> THEN <<>>
    ELSE IF Head(obs) = o THEN Others(Tail(obs), o)
    ELSE <<Head(obs)>> \o Others(Tail(obs), o)

\* C14: addObserver(o) appends o at the end even when o is registered already;
\* removeObserver(o) leaves no registration of o and keeps the others in
\* their order; a mutation calls registered observers only.
Thm_C14_Registration ==
    /\ last.op = "addObserver" =>
          /\ Len(observers) = Len(last.obsBefore) + 1
          /\ SubSeq(observers, 1, Len(last.obsBefore)) = last.obsBefore
          /\ observers[Len(observers)] = last.observer
    /\ last.op = "removeObserver" =>
          /\ \A i \in 1..Len(observers) : observers[i] # last.observer
          /\ observers = Others(last.obsBefore, last.observer)
    /\ last.op \in MutationOps =>
          \A j \in 1..Len(calls) :
              \E i \in 1..Len(observers) : observers[i] = calls[j].observer

\* C14 witness: an observer registered twice was removed and no registration
\* of it is left.
Wit_C14_DuplicateRemoved ==
    /\ last.op = "removeObserver"
    /\ Len(last.obsBefore) = 2
    /\ last.obsBefore[1] = last.observer /\ last.obsBefore[2] = last.observer
    /\ observers = <<>>

\* C14, order: the first of two different observers was removed and the
\* second is left.
Wit_C14_FirstOfTwoRemoved ==
    /\ last.op = "removeObserver"
    /\ Len(last.obsBefore) = 2
    /\ last.obsBefore[1] = last.observer /\ last.obsBefore[2] # last.observer
    /\ observers = <<last.obsBefore[2]>>

\* C14, duplicates: an observer already registered was added again and is
\* registered twice.
Wit_C14_AddedTwice ==
    /\ last.op = "addObserver" /\ Len(observers) = 2
    /\ observers[1] = last.observer /\ observers[2] = last.observer

---------------------------------------------------------------------------
(* The page's display *)

\* C16: on the page, after the initial load and after every add-to-cart,
\* remove and checkout event, the total shown is getTotal() of the current
\* lines, to the cent.
Thm_C16_TotalShownIsCurrent ==
    /\ totalText = getTotal(items)
    /\ last.op \in {"addToCart", "remove", "checkout"} /\ items # last.before =>
          calls = <<[observer |-> "totalDisplay", seen |-> items]>>

\* C16 witness: a line was removed and the total shown went down to the
\* amount of the line that is left.
Wit_C16_TotalAfterRemove ==
    /\ last.op = "remove" /\ Len(items) = 1
    /\ totalText = getTotal(items) /\ totalText > 0
    /\ totalText < last.textBefore

\* C17, as claimed: the status label reads 'Verified' exactly when the gate
\* is Verified.
Claim_C17_LabelAgreesWithGate ==
    (rxStatus = "Verified") <=> verified

\* C18: the rows shown are the current lines, one row per line in order, each
\* with the position of its line; a click on the remove button of row k
\* removes line k and no other.
Thm_C18_RowsAreCurrentLines ==
    /\ Len(cartRows) = Len(items)
    /\ \A k \in 1..Len(cartRows) :
          cartRows[k].line = items[k] /\ cartRows[k].idx = k - 1
    /\ last.op = "remove" =>
          /\ last.row \in 1..Len(last.before)
          /\ Len(items) = Len(last.before) - 1
          /\ \A j \in 1..Len(items) :
                items[j] = (IF j < last.row THEN last.before[j]
                            ELSE last.before[j + 1])

\* C18 witness: the second of two different rows was clicked and the first
\* line is the one left.
Wit_C18_SecondRowRemoved ==
    /\ last.op = "remove" /\ last.row = 2 /\ Len(last.before) = 2
    /\ last.before[1] # last.before[2]
    /\ items = <<last.before[1]>>
    /\ cartRows = <<[idx |-> 0, line |-> last.before[1]]>>

Aux_C19_ButtonSetByMutations ==
    /\ (last.op \in {"addToCart", "remove", "checkout"} /\ last.outcome = "done") =>
          (checkoutDisabled <=> Len(items) = 0)
    /\ last.outcome \in {"NotFound", "PermissionDenied", "empty"} =>
          checkoutDisabled = last.disabledBefore

\* C19, what holds: no event breaks the agreement of button and cart.
Aux_C19_AgreementIsKept ==
    [][(checkoutDisabled <=> Len(items) = 0)
          => (checkoutDisabled' <=> Len(items') = 0)]_vars

---------------------------------------------------------------------------
(* The cart driven directly with observers whose hooks change the registry *)

\* the observers handed to addObserver: the three whose hooks call
\* removeObserver or addObserver, a plain one and one whose hook raises
ObsPool == ReentrantPool \cup {"logger", "thrower"}

NextObs ==
    \/ \E o \in ObsPool : addObserver(o)
    \/ \E o \in ObsPool : removeObserver(o)
    \/ addItem(createProduct("omep20"), 1)
    \/ removeItem(0)
    \/ clear

SpecObs == InitApi /\ [][NextObs]_vars

\* a round as far as it gets: cut after the first call of a hook that raises
RECURSIVE UpToRaise(_)
UpToRaise(round) ==
    IF round = <<>> THEN <<>>
    ELSE IF Head(round).observer = "thrower" THEN <<Head(round)>>
    ELSE <<Head(round)>> \o UpToRaise(Tail(round))

\* the registry obs after the hooks of the first n calls of a round have made
\* their changes, one after the other
RECURSIVE RegistryAfter(_, _, _)
RegistryAfter(obs, round, n) ==
    IF n = 0 THEN obs
    ELSE LET prev == RegistryAfter(obs, round, n - 1)
             o    == round[n].observer
         IN  CASE o = "unsubSelf"   -> Others(prev, "unsubSelf")
               [] o = "unsubLogger" -> Others(prev, "logger")
               [] o = "subLogger"   -> prev \o <<"logger">>
               [] OTHER             -> prev

\* C20: a hook that calls removeObserver (on itself or on another observer)
\* or addObserver does not change who is called in the round in progress:
\* the round of a mutation is the round of the observers registered when it
\* started, each called once in registration order (as far as the round gets
\* when a hook raises, all of it when none does), and the registry after the
\* mutation holds the hooks' changes, which the next mutation's round uses.
Thm_C20_RoundFixedAtStart ==
    last.op \in MutationOps =>
        /\ calls = UpToRaise(FullRound(last.obsBefore, items))
        /\ (\A k \in 1..Len(last.obsBefore) : last.obsBefore[k] # "thrower") =>
              calls = FullRound(last.obsBefore, items)
        /\ observers = RegistryAfter(last.obsBefore, calls, Len(calls))

\* C20 witness: the first observer removed itself inside its hook and the
\* observer after it was still called; it is gone from the registry.
Wit_C20_SelfRemoval ==
    /\ last.op \in MutationOps
    /\ last.obsBefore = <<"unsubSelf", "logger">>
    /\ Len(calls) = 2 /\ calls[1].observer = "unsubSelf" /\ calls[2].observer = "logger"
    /\ observers = <<"logger">>

\* C20 witness: the first observer removed the one after it, which was still
\* called in this round.
Wit_C20_OtherRemoved ==
    /\ last.op \in MutationOps
    /\ last.obsBefore = <<"unsubLogger", "logger">>
    /\ Len(calls) = 2 /\ calls[2].observer = "logger"
    /\ observers = <<"unsubLogger">>

\* C20 witness: the only observer registered another one inside its hook,
\* which was not called in this round.
Wit_C20_AddedDuringRound ==
    /\ last.op \in MutationOps
    /\ last.obsBefore = <<"subLogger">>
    /\ Len(calls) = 1 /\ calls[1].observer = "subLogger"
    /\ observers = <<"subLogger", "logger">>

\* C20 witness: the observer registered inside a hook is called in the round
\* of the next mutation.
Wit_C20_AddedCalledNextRound ==
    /\ last.op \in MutationOps
    /\ last.obsBefore = <<"subLogger", "logger">>
    /\ Len(calls) = 2 /\ calls[2].observer = "logger"
    /\ observers = <<"subLogger", "logger", "logger">>

=============================================================================
